---- MODULE Spec2Model ----
(***************************************************************************)
(* Model of counterpartylib/lib/micropayments/validate.py: the validators  *)
(* of a micropayment channel (commit_script, is_send_tx, is_commit_rawtx,   *)
(* is_state).  Every validator either returns or raises; an outcome is the  *)
(* record [exc, line]: the exception class and the line of validate.py     *)
(* that raised it (the line of the call, for a collaborator's exception).  *)
(***************************************************************************)
EXTENDS Integers, Sequences, FiniteSets, TLC

VARIABLES
    args,      \* the arguments of the call being executed
    pc,        \* the position of the call in the validator's body
    result,    \* the outcome so far: Ok, or the exception raised
    log,       \* the collaborator calls made so far, in order: <<check, operation>>
    dsh,       \* is_state's local deposit_spend_hash (line 226)
    i          \* the index of the entry a loop of is_state is at

vars == <<args, pc, result, log, dsh, i>>

\* Bound of the model: the number of entries of commits_active and
\* commits_revoked together.
MaxCommits == 2

-----------------------------------------------------------------------------
(* Outcomes *)

Ok == [exc |-> "none", line |-> 0]

Raise(e, l) == [exc |-> e, line |-> l]

Failed(r) == r.exc # "none"

\* Python's None for an optional argument, and a supplied value.
None == <<>>

Some(v) == <<v>>

-----------------------------------------------------------------------------
(* Values.  A script is the hex string of the source, modelled by what the  *)
(* script templates decode from it; kind tells what sort of string it is.   *)

NA == "na"

Value(kind, payee, payer, spend, revoke, seq) ==
    [kind |-> kind, payee |-> payee, payer |-> payer, spend |-> spend,
     revoke |-> revoke, seq |-> seq]

DepositScript(payee, payer, spend) == Value("deposit", payee, payer, spend, NA, NA)

CommitScript(payee, payer, spend, revoke, seq) ==
    Value("commit", payee, payer, spend, revoke, seq)

\* hex, even length, but no instance of a script template
Junk == Value("junk", NA, NA, NA, NA, NA)

\* hex characters only, odd length
OddHex == Value("oddhex", NA, NA, NA, NA, NA)

\* a string with a character outside [0-9a-f]
NotHex == Value("nothex", NA, NA, NA, NA, NA)

\* not a string at all
NotString == Value("notstring", NA, NA, NA, NA, NA)

\* an asset name
Asset(name) == [kind |-> "string", name |-> name]

\* a revoke secret, as hex
Secret(hex) == [kind |-> "hex", hex |-> hex]

\* a raw transaction, as hex, by what the ledger decodes from it
Tx(src, dest, data, sig_ok) ==
    [kind |-> "hex", src |-> src, dest |-> dest, btc |-> 0, fee |-> 0, data |-> data,
     sig_ok |-> sig_ok]

-----------------------------------------------------------------------------
(* Collaborators: micropayment_core.scripts / util and the dispatcher.      *)

\* scripts.validate_deposit_script succeeds
IsDepositScript(s) == s.kind = "deposit"

\* scripts.validate_commit_script succeeds
IsCommitScript(s) == s.kind = "commit"

get_deposit_payee_pubkey(s) == s.payee

get_deposit_payer_pubkey(s) == s.payer

get_deposit_spend_secret_hash(s) == s.spend

get_commit_payee_pubkey(s) == s.payee

get_commit_payer_pubkey(s) == s.payer

get_commit_spend_secret_hash(s) == s.spend

get_commit_revoke_secret_hash(s) == s.revoke

\* util.script_address: the pay-to-script-hash address of a script on a network
script_address(s, netcode) == [script |-> s, netcode |-> netcode]

\* util.hash160hex
hash160hex(secret) ==
    CASE secret.hex = "s1" -> "r1"
      [] secret.hex = "s2" -> "r2"
      [] OTHER -> "r0"

\* dispatcher.get("get_assets")(): the asset registry of the ledger
get_assets ==
    <<[asset_name |-> Asset("BTC")], [asset_name |-> Asset("XCP")],
      [asset_name |-> Asset("A1")]>>

\* dispatcher.get("get_tx_info")(tx_hex=rawtx): (src, dest, btc, fee, data)
get_tx_info(rawtx) ==
    [src |-> rawtx.src, dest |-> rawtx.dest, btc |-> rawtx.btc, fee |-> rawtx.fee,
     data |-> rawtx.data]

\* dispatcher.get("unpack")(data_hex=data): (message_type_id, unpacked)
unpack(data) ==
    CASE data = "send:XCP" -> [message_type_id |-> 0, unpacked |-> [asset |-> Asset("XCP")]]
      [] data = "send:A1" -> [message_type_id |-> 0, unpacked |-> [asset |-> Asset("A1")]]
      [] OTHER -> [message_type_id |-> 20, unpacked |-> [asset |-> Asset("A1")]]

\* util.load_tx(get_rawtx, rawtx).bad_signature_count()
bad_signature_count(rawtx) == IF rawtx.sig_ok THEN 0 ELSE 1

\* as if line 170 read "if data is None"
TruthyUnlessNone(data) == data # "None"

\* Python truth of the data field of get_tx_info: None and "" are false
Truthy(data) == data # "None" /\ data # ""

-----------------------------------------------------------------------------
(* Primitive validators *)

is_string(s) == IF s.kind = "notstring" THEN Raise("InvalidString", 56) ELSE Ok

is_hex(data) ==
    IF Failed(is_string(data)) THEN is_string(data)
    ELSE IF data.kind = "nothex" THEN Raise("InvalidHexData", 62)
    ELSE IF data.kind = "oddhex" THEN Raise("InvalidHexData", 64)
    ELSE Ok

\* First failure of a sequence of outcomes, Ok when none failed.
RECURSIVE FirstFailure(_)
FirstFailure(rs) ==
    IF rs = <<>> THEN Ok
    ELSE IF Failed(Head(rs)) THEN Head(rs)
    ELSE FirstFailure(Tail(rs))

-----------------------------------------------------------------------------
(* commit_script(commit_script_hex, deposit_script_hex), lines 134-162      *)

CommitHex(c, d) == FirstFailure(<<is_hex(c), is_hex(d)>>)

CommitStructure(c, d) ==
    IF ~IsDepositScript(d) THEN Raise("InvalidScript", 138)
    ELSE IF ~IsCommitScript(c) THEN Raise("InvalidScript", 139)
    ELSE Ok

\* as if the payee comparison of lines 144-146 were missing
CommitPayeeNoCheck(c, d) == Ok

CommitPayee(c, d) ==
    IF get_deposit_payee_pubkey(d) # get_commit_payee_pubkey(c)
    THEN Raise("IncorrectPubKey", 145)
    ELSE Ok

CommitPayer(c, d) ==
    IF get_deposit_payer_pubkey(d) # get_commit_payer_pubkey(c)
    THEN Raise("IncorrectPubKey", 152)
    ELSE Ok

CommitSpend(c, d) ==
    IF get_deposit_spend_secret_hash(d) # get_commit_spend_secret_hash(c)
    THEN Raise("IncorrectSpendSecretHash", 161)
    ELSE Ok

\* The whole call: the first check that raises decides.
commit_script(c, d) ==
    FirstFailure(<<CommitHex(c, d), CommitStructure(c, d), CommitPayee(c, d),
                   CommitPayer(c, d), CommitSpend(c, d)>>)

-----------------------------------------------------------------------------
(* is_send_tx, lines 165-192.  Each operator is one stretch of the body and *)
(* yields the outcome of that stretch and the dispatcher calls it makes.    *)

SendTxInfo(rawtx) ==
    [res |-> IF ~Truthy(get_tx_info(rawtx).data) THEN Raise("ValueError", 171) ELSE Ok,
     calls |-> <<"get_tx_info">>]

SendUnpack(rawtx) ==
    [res |-> IF unpack(get_tx_info(rawtx).data).message_type_id # 0
             THEN Raise("AssertionError", 173) ELSE Ok,
     calls |-> <<"unpack">>]

\* as if the comparisons of lines 175-180 lacked their "is not None" guards
SendExpectedUnguarded(rawtx, expected_asset, expected_src, expected_dest) ==
    LET info == get_tx_info(rawtx)
        unpacked == unpack(info.data).unpacked
    IN  [res |-> IF expected_src # Some(info.src)
                 THEN Raise("SourceMissmatch", 176)
                 ELSE IF expected_dest # Some(info.dest)
                 THEN Raise("DestinationMissmatch", 178)
                 ELSE IF expected_asset # Some(unpacked.asset)
                 THEN Raise("AssetMissmatch", 180)
                 ELSE Ok,
         calls |-> <<>>]

SendExpected(rawtx, expected_asset, expected_src, expected_dest) ==
    LET info == get_tx_info(rawtx)
        unpacked == unpack(info.data).unpacked
    IN  [res |-> IF expected_src # None /\ expected_src # Some(info.src)
                 THEN Raise("SourceMissmatch", 176)
                 ELSE IF expected_dest # None /\ expected_dest # Some(info.dest)
                 THEN Raise("DestinationMissmatch", 178)
                 ELSE IF expected_asset # None /\ expected_asset # Some(unpacked.asset)
                 THEN Raise("AssetMissmatch", 180)
                 ELSE Ok,
         calls |-> <<>>]

SendSignature(rawtx, validate_signature) ==
    IF validate_signature
    THEN [res |-> IF bad_signature_count(rawtx) # 0
                  THEN Raise("InvalidSignature", 187) ELSE Ok,
          calls |-> <<"getrawtransaction">>]
    ELSE [res |-> Ok, calls |-> <<>>]

\* Runs the stretches in order and stops at the first that raises.
RECURSIVE RunStretches(_, _)
RunStretches(stretches, calls) ==
    IF stretches = <<>> THEN [res |-> Ok, calls |-> calls]
    ELSE IF Failed(Head(stretches).res)
    THEN [res |-> Head(stretches).res, calls |-> calls \o Head(stretches).calls]
    ELSE RunStretches(Tail(stretches), calls \o Head(stretches).calls)

is_send_tx(rawtx, expected_asset, expected_src, expected_dest, validate_signature) ==
    RunStretches(<<SendTxInfo(rawtx), SendUnpack(rawtx),
                   SendExpected(rawtx, expected_asset, expected_src, expected_dest),
                   SendSignature(rawtx, validate_signature)>>, <<>>)

-----------------------------------------------------------------------------
(* is_commit_rawtx, lines 195-209 *)

\* as if the call of line 205 passed no expected_dest
is_commit_rawtx_any_dest(commit_rawtx, expected_asset, expected_deposit_script_hex, expected_commit_script_hex, netcode) ==
    LET r == is_send_tx(commit_rawtx, Some(expected_asset),
                        Some(script_address(expected_deposit_script_hex, netcode)),
                        None, FALSE)
    IN  [res |-> r.res, calls |-> <<"script_address", "script_address">> \o r.calls]

\* as if is_state's call of line 254 asked for the signatures to be verified
is_commit_rawtx_signed(commit_rawtx, expected_asset, expected_deposit_script_hex, expected_commit_script_hex, netcode) ==
    LET r == is_send_tx(commit_rawtx, Some(expected_asset),
                        Some(script_address(expected_deposit_script_hex, netcode)),
                        Some(script_address(expected_commit_script_hex, netcode)),
                        TRUE)
    IN  [res |-> r.res, calls |-> <<"script_address", "script_address">> \o r.calls]

\* is_state's call leaves validate_signature at its default, False.
is_commit_rawtx(commit_rawtx, expected_asset, expected_deposit_script_hex, expected_commit_script_hex, netcode) ==
    LET r == is_send_tx(commit_rawtx, Some(expected_asset),
                        Some(script_address(expected_deposit_script_hex, netcode)),
                        Some(script_address(expected_commit_script_hex, netcode)),
                        FALSE)
    IN  [res |-> r.res, calls |-> <<"script_address", "script_address">> \o r.calls]

-----------------------------------------------------------------------------
(* is_asset, lines 67-71 *)

is_asset(asset) ==
    IF Failed(is_string(asset)) THEN [res |-> is_string(asset), calls |-> <<>>]
    ELSE [res |-> IF \E k \in 1..Len(get_assets) : get_assets[k].asset_name = asset
                  THEN Ok ELSE Raise("AssetDoesNotExist", 71),
          calls |-> <<"get_assets">>]

-----------------------------------------------------------------------------
(* is_state(dispatcher, state_data, netcode), lines 212-257 *)

Required ==
    {"asset", "deposit_script", "commits_requested", "commits_active", "commits_revoked"}

\* _TYPE_HEX: {"type": "string", "pattern": "^[a-f0-9]*$"}
TypeHex(v) == v.kind \notin {"notstring", "nothex"}

\* jsonschema.validate(state_data, _STATE_SCHEMA) succeeds
MatchesSchema(s) ==
    /\ Required \subseteq s.keys
    /\ s.keys \subseteq Required
    /\ s.asset.kind # "notstring"
    /\ TypeHex(s.deposit_script)
    /\ \A k \in 1..Len(s.commits_requested) : TypeHex(s.commits_requested[k])
    /\ \A k \in 1..Len(s.commits_active) :
          TypeHex(s.commits_active[k].rawtx) /\ TypeHex(s.commits_active[k].script)
    /\ \A k \in 1..Len(s.commits_revoked) :
          TypeHex(s.commits_revoked[k].script)
          /\ TypeHex(s.commits_revoked[k].revoke_secret)

StateSchema(s) ==
    [res |-> IF MatchesSchema(s) THEN Ok ELSE Raise("ValidationError", 213),
     calls |-> <<"jsonschema.validate">>]

\* s_active + s_revoked, lines 216-217
Scripts(s) ==
    [k \in 1..Len(s.commits_active) |-> s.commits_active[k].script]
    \o [k \in 1..Len(s.commits_revoked) |-> s.commits_revoked[k].script]

Range(f) == {f[k] : k \in DOMAIN f}

\* as if line 218 compared each list with its own set
StateUniquePerList(s) ==
    LET s_active == [k \in 1..Len(s.commits_active) |-> s.commits_active[k].script]
        s_revoked == [k \in 1..Len(s.commits_revoked) |-> s.commits_revoked[k].script]
    IN  [res |-> IF /\ Len(s_active) = Cardinality(Range(s_active))
                    /\ Len(s_revoked) = Cardinality(Range(s_revoked))
                 THEN Ok ELSE Raise("AssertionError", 218),
         calls |-> <<>>]

StateUnique(s) ==
    [res |-> IF Len(Scripts(s)) = Cardinality(Range(Scripts(s)))
             THEN Ok ELSE Raise("AssertionError", 218),
     calls |-> <<>>]

StateAsset(s) == is_asset(s.asset)

\* Lines 225-226 take the address and the spend secret hash of the script
\* before line 227 validates it; whichever of the three calls rejects a string
\* that is no deposit script, the exception is the script template's.
StateDeposit(s, netcode) ==
    [res |-> IF IsDepositScript(s.deposit_script) THEN Ok ELSE Raise("InvalidScript", 227),
     calls |-> <<"script_address", "get_deposit_spend_secret_hash",
                 "validate_deposit_script">>]

\* as if the assertion of line 241 were missing
StateRevokedNoSecret(revoked, deposit_spend_hash) ==
    IF ~IsCommitScript(revoked.script)
    THEN [res |-> Raise("InvalidScript", 233), calls |-> <<"validate_commit_script">>]
    ELSE IF get_commit_spend_secret_hash(revoked.script) # deposit_spend_hash
    THEN [res |-> Raise("AssertionError", 237),
          calls |-> <<"validate_commit_script", "get_commit_spend_secret_hash">>]
    ELSE [res |-> Ok,
          calls |-> <<"validate_commit_script", "get_commit_spend_secret_hash">>]

\* as if line 241 compared the revoke hash with the secret, not with its hash
StateRevokedRawSecret(revoked, deposit_spend_hash) ==
    IF ~IsCommitScript(revoked.script)
    THEN [res |-> Raise("InvalidScript", 233), calls |-> <<"validate_commit_script">>]
    ELSE IF get_commit_spend_secret_hash(revoked.script) # deposit_spend_hash
    THEN [res |-> Raise("AssertionError", 237),
          calls |-> <<"validate_commit_script", "get_commit_spend_secret_hash">>]
    ELSE [res |-> IF get_commit_revoke_secret_hash(revoked.script)
                       = revoked.revoke_secret.hex
                  THEN Ok ELSE Raise("AssertionError", 241),
          calls |-> <<"validate_commit_script", "get_commit_spend_secret_hash",
                      "get_commit_revoke_secret_hash">>]

\* One pass of the loop over commits_revoked, lines 230-241
StateRevoked(revoked, deposit_spend_hash) ==
    IF ~IsCommitScript(revoked.script)
    THEN [res |-> Raise("InvalidScript", 233), calls |-> <<"validate_commit_script">>]
    ELSE IF get_commit_spend_secret_hash(revoked.script) # deposit_spend_hash
    THEN [res |-> Raise("AssertionError", 237),
          calls |-> <<"validate_commit_script", "get_commit_spend_secret_hash">>]
    ELSE [res |-> IF get_commit_revoke_secret_hash(revoked.script)
                       = hash160hex(revoked.revoke_secret)
                  THEN Ok ELSE Raise("AssertionError", 241),
          calls |-> <<"validate_commit_script", "get_commit_spend_secret_hash",
                      "get_commit_revoke_secret_hash", "hash160hex">>]

\* One pass of the loop over commits_active, lines 244-257
StateActive(active, s, netcode, deposit_spend_hash) ==
    IF ~IsCommitScript(active.script)
    THEN [res |-> Raise("InvalidScript", 247), calls |-> <<"validate_commit_script">>]
    ELSE IF get_commit_spend_secret_hash(active.script) # deposit_spend_hash
    THEN [res |-> Raise("AssertionError", 251),
          calls |-> <<"validate_commit_script", "get_commit_spend_secret_hash">>]
    ELSE LET r == is_commit_rawtx(active.rawtx, s.asset, s.deposit_script,
                                  active.script, netcode)
         IN  [res |-> r.res,
              calls |-> <<"validate_commit_script", "get_commit_spend_secret_hash">>
                        \o r.calls]

\* The whole call: the checks in the order of the body, the loop over
\* commits_revoked before the loop over commits_active.
is_state(s, netcode) ==
    RunStretches(
        <<StateSchema(s), StateUnique(s), StateAsset(s), StateDeposit(s, netcode)>>
        \o [k \in 1..Len(s.commits_revoked) |->
              StateRevoked(s.commits_revoked[k],
                           get_deposit_spend_secret_hash(s.deposit_script))]
        \o [k \in 1..Len(s.commits_active) |->
              StateActive(s.commits_active[k], s, netcode,
                          get_deposit_spend_secret_hash(s.deposit_script))],
        <<>>)

-----------------------------------------------------------------------------
(* The inputs of the model *)

Netcode == "XTN"

\* the deposit script of the channel, and what else may stand in its place
D0 == DepositScript("pkB", "pkA", "h1")

\* commit scripts of D0: with D0's spend secret hash or another, with D0's
\* payee or another
CA == CommitScript("pkB", "pkA", "h1", "r1", 5)

CB == CommitScript("pkB", "pkA", "h1", "r2", 5)

CW == CommitScript("pkB", "pkA", "h2", "r1", 5)

CP == CommitScript("pkX", "pkA", "h1", "r1", 5)

\* an address that belongs to none of the scripts
ThirdParty == script_address(Junk, Netcode)

\* The transactions the ledger knows for a commit script c: the send of XCP
\* from D0's address to c's, and its variations.
TxOk(c) == Tx(script_address(D0, Netcode), script_address(c, Netcode), "send:XCP", TRUE)

TxPool(c) ==
    { TxOk(c),
      [TxOk(c) EXCEPT !.sig_ok = FALSE],
      [TxOk(c) EXCEPT !.dest = ThirdParty],
      [TxOk(c) EXCEPT !.src = ThirdParty],
      [TxOk(c) EXCEPT !.data = "send:A1"],
      [TxOk(c) EXCEPT !.data = "None"],
      [TxOk(c) EXCEPT !.data = "issuance"] }

\* The entries a commits_active list is drawn from: CA with every transaction
\* of its pool, and each other script with the send that suits it.
ActiveEntries ==
    { [rawtx |-> t, script |-> CA] : t \in TxPool(CA) }
    \cup { [rawtx |-> TxOk(c), script |-> c] : c \in {CB, CW, CP, Junk} }

\* The entries a commits_revoked list is drawn from: CA and CB with the
\* secret of their revoke hash and with another, the others with a secret.
RevokedEntries ==
    { [script |-> c, revoke_secret |-> Secret(x)] : c \in {CA, CB}, x \in {"s1", "s2"} }
    \cup { [script |-> c, revoke_secret |-> Secret("s1")] : c \in {CW, CP, Junk} }

SeqN(S, n) == [1..n -> S]

SeqUpTo(S, n) == UNION { SeqN(S, k) : k \in 0..n }

\* commits_active and commits_revoked, MaxCommits entries together at most
CommitLists ==
    UNION { { <<a, r>> : a \in SeqN(ActiveEntries, n), r \in SeqUpTo(RevokedEntries, MaxCommits - n) }
            : n \in 0..MaxCommits }

StateData ==
    { [keys |-> k, asset |-> a, deposit_script |-> d, commits_requested |-> <<>>,
       commits_active |-> l[1], commits_revoked |-> l[2]] :
      k \in {Required, Required \cup {"extra"}, Required \ {"commits_requested"}},
      a \in {Asset("XCP"), Asset("NOPE")},
      d \in {D0, Junk, NotHex},
      l \in CommitLists }

-----------------------------------------------------------------------------
(* is_state as a process: one action per check, one pass of a loop at a time *)

Tag(check, calls) == [k \in 1..Len(calls) |-> <<check, calls[k]>>]

\* Where the body goes on after the passes before entry k of commits_revoked
\* (k of commits_active) are done.
AtRevoked(s, k) ==
    IF k <= Len(s.commits_revoked) THEN <<"revoked", k>>
    ELSE IF Len(s.commits_active) >= 1 THEN <<"active", 1>>
    ELSE <<"returned", 0>>

AtActive(s, k) ==
    IF k <= Len(s.commits_active) THEN <<"active", k>> ELSE <<"returned", 0>>

\* as if a failed check were recorded and the body went on to the next
StepCollecting(check, r, next) ==
    /\ result' = IF Failed(result) THEN result ELSE r.res
    /\ log' = log \o Tag(check, r.calls)
    /\ pc' = IF next[1] = "returned" /\ (Failed(result) \/ Failed(r.res))
             THEN "raised" ELSE next[1]
    /\ i' = next[2]

\* A stretch of the body ran with outcome r: an exception leaves the body.
Step(check, r, next) ==
    /\ result' = r.res
    /\ log' = log \o Tag(check, r.calls)
    /\ pc' = IF Failed(r.res) THEN "raised" ELSE next[1]
    /\ i' = IF Failed(r.res) THEN i ELSE next[2]

InitState ==
    /\ args \in { [state_data |-> s, netcode |-> Netcode] : s \in StateData }
    /\ pc = "schema"
    /\ result = Ok
    /\ log = <<>>
    /\ dsh = NA
    /\ i = 0

ValidateSchema ==
    /\ pc = "schema"
    /\ Step(1, StateSchema(args.state_data), <<"unique", 0>>)
    /\ UNCHANGED <<args, dsh>>

CheckUnique ==
    /\ pc = "unique"
    /\ Step(2, StateUnique(args.state_data), <<"asset", 0>>)
    /\ UNCHANGED <<args, dsh>>

CheckAsset ==
    /\ pc = "asset"
    /\ Step(3, StateAsset(args.state_data), <<"deposit", 0>>)
    /\ UNCHANGED <<args, dsh>>

CheckDeposit ==
    /\ pc = "deposit"
    /\ Step(4, StateDeposit(args.state_data, args.netcode), AtRevoked(args.state_data, 1))
    /\ dsh' = get_deposit_spend_secret_hash(args.state_data.deposit_script)
    /\ UNCHANGED args

CheckRevoked ==
    /\ pc = "revoked"
    /\ Step(5, StateRevoked(args.state_data.commits_revoked[i], dsh),
            AtRevoked(args.state_data, i + 1))
    /\ UNCHANGED <<args, dsh>>

CheckActive ==
    /\ pc = "active"
    /\ Step(6, StateActive(args.state_data.commits_active[i], args.state_data,
                           args.netcode, dsh),
            AtActive(args.state_data, i + 1))
    /\ UNCHANGED <<args, dsh>>

NextState ==
    \/ ValidateSchema
    \/ CheckUnique
    \/ CheckAsset
    \/ CheckDeposit
    \/ CheckRevoked
    \/ CheckActive

Spec == InitState /\ [][NextState]_vars

-----------------------------------------------------------------------------
(* is_send_tx as a process *)

AddrD == script_address(D0, Netcode)

AddrC == script_address(CA, Netcode)

SendArgs ==
    { [rawtx |-> Tx(src, dest, data, sig), expected_asset |-> ea, expected_src |-> es,
       expected_dest |-> ed, validate_signature |-> vs] :
      src \in {AddrD, ThirdParty}, dest \in {AddrC, ThirdParty},
      data \in {"None", "", "send:XCP", "send:A1", "issuance"}, sig \in BOOLEAN,
      ea \in {None, Some(Asset("XCP")), Some(Asset("A1"))},
      es \in {None, Some(AddrD), Some(ThirdParty)},
      ed \in {None, Some(AddrC), Some(ThirdParty)},
      vs \in BOOLEAN }

InitSend ==
    /\ args \in SendArgs
    /\ pc = "tx_info"
    /\ result = Ok
    /\ log = <<>>
    /\ dsh = NA
    /\ i = 0

GetTxInfo ==
    /\ pc = "tx_info"
    /\ Step(0, SendTxInfo(args.rawtx), <<"unpack", 0>>)
    /\ UNCHANGED <<args, dsh>>

Unpack ==
    /\ pc = "unpack"
    /\ Step(0, SendUnpack(args.rawtx), <<"expected", 0>>)
    /\ UNCHANGED <<args, dsh>>

CheckExpected ==
    /\ pc = "expected"
    /\ Step(0, SendExpected(args.rawtx, args.expected_asset, args.expected_src,
                            args.expected_dest),
            <<"signature", 0>>)
    /\ UNCHANGED <<args, dsh>>

CheckSignature ==
    /\ pc = "signature"
    /\ Step(0, SendSignature(args.rawtx, args.validate_signature), <<"returned", 0>>)
    /\ UNCHANGED <<args, dsh>>

NextSend ==
    \/ GetTxInfo
    \/ Unpack
    \/ CheckExpected
    \/ CheckSignature

SpecSend == InitSend /\ [][NextSend]_vars

-----------------------------------------------------------------------------
(* commit_script as a process *)

Pubkeys == {"pkA", "pkB"}

Hashes == {"h1", "h2"}

CommitArgs ==
    { [commit_script_hex |-> c, deposit_script_hex |-> d] :
      c \in { CommitScript(payee, payer, spend, revoke, seq) :
              payee \in Pubkeys, payer \in Pubkeys, spend \in Hashes,
              revoke \in {"r1", "r2"}, seq \in {5, 6} }
            \cup {D0, Junk, OddHex, NotHex, NotString},
      d \in { DepositScript(payee, payer, spend) :
              payee \in Pubkeys, payer \in Pubkeys, spend \in Hashes }
            \cup {CA, Junk, OddHex, NotHex, NotString} }

InitCommit ==
    /\ args \in CommitArgs
    /\ pc = "hex"
    /\ result = Ok
    /\ log = <<>>
    /\ dsh = NA
    /\ i = 0

Plain(r) == [res |-> r, calls |-> <<>>]

CheckHex ==
    /\ pc = "hex"
    /\ Step(0, Plain(CommitHex(args.commit_script_hex, args.deposit_script_hex)),
            <<"structure", 0>>)
    /\ UNCHANGED <<args, dsh>>

CheckStructure ==
    /\ pc = "structure"
    /\ Step(0, Plain(CommitStructure(args.commit_script_hex, args.deposit_script_hex)),
            <<"payee", 0>>)
    /\ UNCHANGED <<args, dsh>>

CheckPayee ==
    /\ pc = "payee"
    /\ Step(0, Plain(CommitPayee(args.commit_script_hex, args.deposit_script_hex)),
            <<"payer", 0>>)
    /\ UNCHANGED <<args, dsh>>

CheckPayer ==
    /\ pc = "payer"
    /\ Step(0, Plain(CommitPayer(args.commit_script_hex, args.deposit_script_hex)),
            <<"spend", 0>>)
    /\ UNCHANGED <<args, dsh>>

CheckSpend ==
    /\ pc = "spend"
    /\ Step(0, Plain(CommitSpend(args.commit_script_hex, args.deposit_script_hex)),
            <<"returned", 0>>)
    /\ UNCHANGED <<args, dsh>>

NextCommit ==
    \/ CheckHex
    \/ CheckStructure
    \/ CheckPayee
    \/ CheckPayer
    \/ CheckSpend

SpecCommit == InitCommit /\ [][NextCommit]_vars

-----------------------------------------------------------------------------
(* What the claims about is_state speak of, stated on the input alone *)

S == args.state_data

Returned == pc = "returned"

Raised == pc = "raised"

Min(ks) == CHOOSE k \in ks : \A m \in ks : k <= m

\* the operations logged so far
Ops == {log[k][2] : k \in 1..Len(log)}

\* Some script occurs twice in commits_active + commits_revoked.
ActiveScript(s, k) == s.commits_active[k].script

RevokedScript(s, k) == s.commits_revoked[k].script

DuplicateAcross(s) ==
    \E j \in 1..Len(s.commits_active), k \in 1..Len(s.commits_revoked) :
        ActiveScript(s, j) = RevokedScript(s, k)

DuplicateWithin(s) ==
    \/ \E j, k \in 1..Len(s.commits_active) : j < k /\ ActiveScript(s, j) = ActiveScript(s, k)
    \/ \E j, k \in 1..Len(s.commits_revoked) :
          j < k /\ RevokedScript(s, j) = RevokedScript(s, k)

Duplicate(s) == DuplicateAcross(s) \/ DuplicateWithin(s)

SchemaValid(s) ==
    /\ s.keys = Required
    /\ s.asset.kind = "string"
    /\ s.deposit_script.kind \in {"deposit", "commit", "junk", "oddhex"}

AssetExists(s) == s.asset.name \in {"BTC", "XCP", "A1"}

ValidDeposit(s) == s.deposit_script.kind = "deposit"

\* A commit script that is structurally valid and shares the deposit's
\* spend_secret_hash.
CommitOfDeposit(s, c) == c.kind = "commit" /\ c.spend = s.deposit_script.spend

SecretMatches(e) ==
    \/ e.revoke_secret.hex = "s1" /\ e.script.revoke = "r1"
    \/ e.revoke_secret.hex = "s2" /\ e.script.revoke = "r2"

RevokedEntryValid(s, e) == CommitOfDeposit(s, e.script) /\ SecretMatches(e)

\* The ledger reports t as a send of the state's asset from the deposit's
\* address to the address of c.
LedgerSend(s, t, c) ==
    /\ t.data = "send:" \o s.asset.name
    /\ t.src = [script |-> s.deposit_script, netcode |-> args.netcode]
    /\ t.dest = [script |-> c, netcode |-> args.netcode]

ActiveEntryValid(s, e) == CommitOfDeposit(s, e.script) /\ LedgerSend(s, e.rawtx, e.script)

\* The checks of validate_state, by number, that a state violates.
Violates(s, n) ==
    CASE n = 1 -> ~SchemaValid(s)
      [] n = 2 -> Duplicate(s)
      [] n = 3 -> ~AssetExists(s)
      [] n = 4 -> ~ValidDeposit(s)
      [] n = 5 -> \E k \in 1..Len(s.commits_revoked) :
                     ~RevokedEntryValid(s, s.commits_revoked[k])
      [] n = 6 -> \E k \in 1..Len(s.commits_active) :
                     ~ActiveEntryValid(s, s.commits_active[k])

Violated(s) == {n \in 1..6 : Violates(s, n)}

\* The check an exception belongs to, by the line that raised it.
CheckOfLine(l) ==
    CASE l = 213 -> 1
      [] l = 218 -> 2
      [] l \in {56, 71} -> 3
      [] l = 227 -> 4
      [] l \in {233, 237, 241} -> 5
      [] l \in {247, 251, 171, 173, 176, 178, 180, 187} -> 6
      [] OTHER -> 0

-----------------------------------------------------------------------------
(* Claims about is_state, under Spec *)

\* C1: validate_state is fail-fast over its six ordered checks: for a state
\* that violates some of them, no step of a check later than the lowest
\* violated one is ever executed, and the call ends with the error that
\* belongs to the lowest violated check.
C1_FailFast ==
    Violated(S) # {} =>
        /\ \A k \in 1..Len(log) : log[k][1] <= Min(Violated(S))
        /\ ~Returned
        /\ Raised => CheckOfLine(result.line) = Min(Violated(S))

\* a state violating check 5 and check 6 was stopped in check 5, after the
\* earlier checks ran
C1_Witness ==
    /\ Raised
    /\ Violated(S) = {5, 6}
    /\ CheckOfLine(result.line) = 5
    /\ Len(S.commits_revoked) = 1

\* C2: a schema-valid state with a script occurring twice in commits_active +
\* commits_revoked fails with the duplicate-script error (the assertion of line
\* 218), before the asset lookup and before any script or transaction check.
C2_DuplicateScript ==
    (SchemaValid(S) /\ Duplicate(S)) =>
        /\ ~Returned
        /\ Raised => result = Raise("AssertionError", 218)
        /\ \A k \in 1..Len(log) : log[k][1] <= 2
        /\ Ops \subseteq {"jsonschema.validate"}

\* the same script once in each list, every entry passing all other checks
C2_Witness ==
    /\ Raised
    /\ result = Raise("AssertionError", 218)
    /\ DuplicateAcross(S) /\ ~DuplicateWithin(S)
    /\ Violated(S) = {2}

\* C3 as claimed: a state with any revoked entry whose secret hashes to
\* another value than its script's revoke_secret_hash fails with the
\* revocation-mismatch error (the assertion of line 241), whatever the position
\* of the entry and whatever commits_active holds.  Stated for the states most
\* favourable to it: schema-valid, the asset registered, the deposit script
\* valid, every revoked script a distinct commit script of the deposit.
C3_AsClaimed ==
    ( /\ Violated(S) \cap {1, 3, 4} = {}
      /\ \A k \in 1..Len(S.commits_revoked) : CommitOfDeposit(S, RevokedScript(S, k))
      /\ \A j, k \in 1..Len(S.commits_revoked) :
            j < k => RevokedScript(S, j) # RevokedScript(S, k)
      /\ \E k \in 1..Len(S.commits_revoked) : ~SecretMatches(S.commits_revoked[k]) ) =>
        /\ ~Returned
        /\ Raised => result = Raise("AssertionError", 241)

\* C3 as amended: validate_state succeeds only if every revoked entry's secret
\* hashes to its script's revoke_secret_hash; a state that passes checks 1 to
\* 4 and has a revoked entry, at any position, whose secret hashes to another
\* value, whose script is a commit script of the deposit and whose
\* predecessors in the list are valid, fails with the revocation-mismatch
\* error, whatever commits_active holds.
C3_RevocationMismatch ==
    /\ Returned =>
          \A k \in 1..Len(S.commits_revoked) : SecretMatches(S.commits_revoked[k])
    /\ \A k \in 1..Len(S.commits_revoked) :
          ( /\ Violated(S) \cap {1, 2, 3, 4} = {}
            /\ CommitOfDeposit(S, RevokedScript(S, k))
            /\ ~SecretMatches(S.commits_revoked[k])
            /\ \A j \in 1..(k - 1) : RevokedEntryValid(S, S.commits_revoked[j]) ) =>
          /\ ~Returned
          /\ Raised => result = Raise("AssertionError", 241)

\* the mismatch in the second revoked entry
C3_Witness ==
    /\ Raised
    /\ result = Raise("AssertionError", 241)
    /\ Len(S.commits_revoked) = 2
    /\ RevokedEntryValid(S, S.commits_revoked[1])
    /\ ~SecretMatches(S.commits_revoked[2])

\* the mismatch in a revoked entry, with an active entry that is invalid
C3_WitnessActive ==
    /\ Raised
    /\ result = Raise("AssertionError", 241)
    /\ Len(S.commits_active) = 1
    /\ ~ActiveEntryValid(S, S.commits_active[1])

\* An active entry that is valid but for the destination of its rawtx, which
\* is a third party's address.
ThirdPartyDestination(s, e) ==
    /\ CommitOfDeposit(s, e.script)
    /\ LedgerSend(s, [e.rawtx EXCEPT !.dest = [script |-> e.script, netcode |-> args.netcode]],
                  e.script)
    /\ e.rawtx.dest # [script |-> e.script, netcode |-> args.netcode]

\* C4: validate_state succeeds only if the ledger reports every active
\* entry's rawtx as a send of the state's asset from the deposit's address to
\* the address of the entry's script; an otherwise valid state with an active
\* entry whose rawtx goes to a third party fails with the destination-mismatch
\* error.
C4_ActiveRawtx ==
    /\ Returned =>
          \A k \in 1..Len(S.commits_active) :
              LedgerSend(S, S.commits_active[k].rawtx, ActiveScript(S, k))
    /\ ( /\ Violated(S) = {6}
         /\ \A k \in 1..Len(S.commits_active) :
               \/ ActiveEntryValid(S, S.commits_active[k])
               \/ ThirdPartyDestination(S, S.commits_active[k]) ) =>
          /\ ~Returned
          /\ Raised => result = Raise("DestinationMissmatch", 178)

\* a valid active entry followed by one with a third-party destination
C4_Witness ==
    /\ Raised
    /\ result = Raise("DestinationMissmatch", 178)
    /\ Len(S.commits_active) = 2
    /\ ActiveEntryValid(S, S.commits_active[1])
    /\ ThirdPartyDestination(S, S.commits_active[2])
    /\ Violated(S) = {6}

\* C5: a state that violates none of the six checks passes validate_state:
\* no step of the call raises, and the call goes on until it returns.
C5_Completeness ==
    Violated(S) = {} =>
        /\ ~Raised
        /\ result = Ok
        /\ ~Returned => ENABLED NextState

\* a valid state with a revoked and an active entry has passed
C5_Witness ==
    /\ Returned
    /\ Violated(S) = {}
    /\ Len(S.commits_revoked) = 1
    /\ Len(S.commits_active) = 1

\* C9: in every state validate_state accepts, commit_script(script,
\* deposit_script) succeeds on each script of commits_active and
\* commits_revoked: it shares payee_pubkey, payer_pubkey and spend_secret_hash
\* with the deposit script.
C9_AcceptedCommitsAreOfDeposit ==
    Returned =>
        \A c \in Range(Scripts(S)) :
            /\ commit_script(c, S.deposit_script) = Ok
            /\ c.payee = S.deposit_script.payee
            /\ c.payer = S.deposit_script.payer
            /\ c.spend = S.deposit_script.spend

\* The states that differ from s in nothing but the validity of the
\* signatures of their active rawtxs.
SignatureVariants(s) ==
    { [s EXCEPT !.commits_active =
          [k \in 1..Len(s.commits_active) |->
              [s.commits_active[k] EXCEPT !.rawtx.sig_ok = f[k]]]] :
      f \in [1..Len(s.commits_active) -> BOOLEAN] }

\* C10: validate_state never has a signature verified: no call of it reaches
\* getrawtransaction or ends with the invalid-signature error, and its outcome
\* is the outcome of every state that differs only in the validity of the
\* signatures of the active rawtxs.
C10_NoSignatureCheck ==
    /\ "getrawtransaction" \notin Ops
    /\ result.exc # "InvalidSignature"
    /\ (Returned \/ Raised) =>
          \A v \in SignatureVariants(S) : is_state(v, args.netcode).res = result

\* a state whose only active rawtx has a bad signature was accepted
C10_Witness ==
    /\ Returned
    /\ Len(S.commits_active) = 1
    /\ ~S.commits_active[1].rawtx.sig_ok
    /\ "get_tx_info" \in Ops

-----------------------------------------------------------------------------
(* Claims about is_send_tx, under SpecSend *)

\* the payload of the transaction is of the send type
SendPayload == args.rawtx.data \in {"send:XCP", "send:A1"}

PayloadAsset == IF args.rawtx.data = "send:XCP" THEN Asset("XCP") ELSE Asset("A1")

SrcDiffers == args.expected_src # None /\ args.expected_src # Some(args.rawtx.src)

DestDiffers == args.expected_dest # None /\ args.expected_dest # Some(args.rawtx.dest)

AssetDiffers == args.expected_asset # None /\ args.expected_asset # Some(PayloadAsset)

\* C6: on a transaction whose payload is empty or absent is_send_tx raises
\* the ValueError of line 171 ("No data for given transaction!"), whatever the
\* expected values and validate_signature are, and neither unpack nor
\* getrawtransaction is called nor any expected value compared before.
C6_MissingPayload ==
    args.rawtx.data \in {"None", ""} =>
        /\ pc \in {"tx_info", "raised"}
        /\ Ops \subseteq {"get_tx_info"}
        /\ Raised => result = Raise("ValueError", 171)

\* an empty payload, every expected value supplied and wrong, signature asked
C6_Witness ==
    /\ Raised
    /\ result = Raise("ValueError", 171)
    /\ args.rawtx.data = ""
    /\ args.validate_signature
    /\ args.expected_asset # None /\ SrcDiffers /\ DestDiffers

\* C7: for a payload of the send type, a mismatch error is raised only for a
\* supplied value that differs (asset, source and destination each have their
\* own error; None never fails), a supplied value that differs makes the call
\* fail with a mismatch error, its own when it is the only one that differs,
\* and with validate_signature off the call succeeds exactly when no supplied
\* value differs.
C7_ExpectedValues ==
    (SendPayload /\ (Returned \/ Raised)) =>
        /\ result.exc = "SourceMissmatch" => SrcDiffers
        /\ result.exc = "DestinationMissmatch" => DestDiffers
        /\ result.exc = "AssetMissmatch" => AssetDiffers
        /\ (SrcDiffers \/ DestDiffers \/ AssetDiffers) =>
              result.exc \in {"SourceMissmatch", "DestinationMissmatch", "AssetMissmatch"}
        /\ (SrcDiffers /\ ~DestDiffers /\ ~AssetDiffers) => result.exc = "SourceMissmatch"
        /\ (~SrcDiffers /\ DestDiffers /\ ~AssetDiffers) =>
              result.exc = "DestinationMissmatch"
        /\ (~SrcDiffers /\ ~DestDiffers /\ AssetDiffers) => result.exc = "AssetMissmatch"
        /\ ~args.validate_signature =>
              (Returned <=> ~(SrcDiffers \/ DestDiffers \/ AssetDiffers))

\* only the asset is supplied, and it differs
C7_Witness ==
    /\ Raised
    /\ SendPayload
    /\ result = Raise("AssetMissmatch", 180)
    /\ args.expected_src = None /\ args.expected_dest = None

\* nothing is supplied and the call returns
C7_WitnessNone ==
    /\ Returned
    /\ SendPayload
    /\ args.expected_asset = None /\ args.expected_src = None /\ args.expected_dest = None
    /\ ~args.validate_signature

-----------------------------------------------------------------------------
(* Claims about commit_script, under SpecCommit *)

Commit == args.commit_script_hex

Deposit == args.deposit_script_hex

\* C8: for a structurally valid commit script and a structurally valid deposit
\* script, commit_script succeeds if and only if payee_pubkey, payer_pubkey and
\* spend_secret_hash agree; a pair that differs in payee_pubkey only, or in
\* payer_pubkey only, fails with IncorrectPubKey, a pair that differs in
\* spend_secret_hash only with IncorrectSpendSecretHash; revoke_secret_hash
\* and sequence decide nothing.
C8_CommitIdentity ==
    (Commit.kind = "commit" /\ Deposit.kind = "deposit" /\ (Returned \/ Raised)) =>
        /\ Returned <=> ( /\ Commit.payee = Deposit.payee
                          /\ Commit.payer = Deposit.payer
                          /\ Commit.spend = Deposit.spend )
        /\ Returned => result = Ok
        /\ ( /\ Commit.payee # Deposit.payee
             /\ Commit.payer = Deposit.payer
             /\ Commit.spend = Deposit.spend ) => result = Raise("IncorrectPubKey", 145)
        /\ ( /\ Commit.payee = Deposit.payee
             /\ Commit.payer # Deposit.payer
             /\ Commit.spend = Deposit.spend ) => result = Raise("IncorrectPubKey", 152)
        /\ ( /\ Commit.payee = Deposit.payee
             /\ Commit.payer = Deposit.payer
             /\ Commit.spend # Deposit.spend ) =>
              result = Raise("IncorrectSpendSecretHash", 161)
        /\ \A revoke \in {"r1", "r2"}, seq \in {5, 6} :
              commit_script([Commit EXCEPT !.revoke = revoke, !.seq = seq], Deposit) = result

\* a pair that differs in payee_pubkey only
C8_Witness ==
    /\ Raised
    /\ result = Raise("IncorrectPubKey", 145)
    /\ Commit.kind = "commit" /\ Deposit.kind = "deposit"
    /\ Commit.payer = Deposit.payer
    /\ Commit.spend = Deposit.spend

====
